---- MODULE Spec2Model ----
(***************************************************************************)
(* MongoStore (koa-generic-session-mongo-fixed/src/store.js): a session    *)
(* store over a MongoDB collection.  The model follows the store through   *)
(* construction, the connection callback, the two ensureIndex callbacks    *)
(* and the get / set / destroy generators, together with the collection    *)
(* they talk to.                                                           *)
(*                                                                         *)
(* One action is one turn of the JavaScript event loop: a callback and     *)
(* the promise reactions (microtasks) it triggers.  The backing collection *)
(* is the environment: it executes a findOne / update / remove some time   *)
(* after it was issued and answers some time after that.                   *)
(***************************************************************************)
EXTENDS Integers, Sequences, FiniteSets, TLC

\* ---------------------------------------------------------------- bounds
\* calls of get / set / destroy made on a store that is ready
MaxOps == 3
\* calls made on a store that may still be initializing
MaxInitOps == 2
\* last value of the clock
MaxNow == 1

\* ------------------------------------------------------ program constants
ONE_DAY == 86400000

\* ------------------------------------------------------------- JS values
\* A JavaScript value of the kinds set() looks at: a tag (its typeof) and a
\* payload.  Strings are represented by a number that names them, 0 naming
\* the empty string.
Undefined == <<"undefined", 0>>
Num(n) == <<"number", n>>
Str(n) == <<"string", n>>
Truthy(v) == v[1] \in {"number", "string"} /\ v[2] # 0
TypeofNumber(v) == v[1] = "number"
\* a || b
Or(a, b) == IF Truthy(a) THEN a ELSE b

\* The result of findOne when nothing matches.
Null == [null |-> 1]

Sids == {"s1", "s2"}
OpIds == 1..MaxOps
InitOpIds == 1..MaxInitOps
IndexNames == {"ttl", "sid"}

\* Session objects the middleware passes to set().  SessB has a key of its
\* own that collides with the store's bookkeeping, and a cookie that expires
\* after one millisecond.
SessA == [a |-> 1]
SessB == [b |-> 2, sid |-> "own", cookie |-> [maxAge |-> Num(1)]]
Sessions == {SessA, SessB}
NoSess == [none |-> 1]
\* The ttl argument of set() as the session middleware leaves it: absent.
TtlArgs == {Undefined}

\* The inputs that decide the expiry: cookie objects and ttl arguments.
Cookies == {[path |-> Str(1)],
            [maxAge |-> Num(0)], [maxAge |-> Num(2)], [maxAge |-> Num(5000)],
            [maxage |-> Num(2)], [maxAge |-> Num(0), maxage |-> Num(2)],
            [maxAge |-> Str(5000)], [maxAge |-> Str(5000), maxage |-> Num(2)],
            [maxage |-> Str(5000)], [maxAge |-> Str(0)],
            [maxAge |-> Str(0), maxage |-> Str(5000)]}
CookieSessions == {SessA} \cup {[a |-> 1, cookie |-> c] : c \in Cookies}
CookieTtlArgs == {Undefined, Num(0), Num(1), Num(5000)}

\* Constructor options, by the three things the constructor looks at.
\*   url      options.url is set
\*   hostEtc  'host', 'port', 'db' or 'ssl' is a key of options
\*   dbHandle options.db is an object with a dropDatabase function
OptParams == [url |-> FALSE, hostEtc |-> TRUE, dbHandle |-> FALSE]
OptUrl == [url |-> TRUE, hostEtc |-> FALSE, dbHandle |-> FALSE]
OptDbHandle == [url |-> FALSE, hostEtc |-> TRUE, dbHandle |-> TRUE]
OptConflict == [url |-> TRUE, hostEtc |-> TRUE, dbHandle |-> FALSE]
OptConflictDb == [url |-> TRUE, hostEtc |-> TRUE, dbHandle |-> TRUE]
OptionsSet == {OptParams, OptUrl, OptDbHandle, OptConflict, OptConflictDb}

VARIABLES
  options,          \* the options the store was constructed with
  driver,           \* how the MongoDB driver in use reads findOne's second argument
  ctor,             \* "ok" | "threw": how the constructor returned
  col,              \* this.col, the collection promise: "pending" | "resolved" | "rejected"
  connectAttempts,  \* number of MongoClient.connect calls made
  idx,              \* per index: "none" | "requested" | "ok" | "failed"
  times,            \* the counter of _ensureIndexes
  ready,            \* the promise of _ensureIndexes: "pending" | "resolved" | "rejected"
  emitted,          \* the events emitted so far, in order
  ops,              \* the get / set / destroy calls, by call number
  docs,             \* the collection: documents in natural (insertion) order
  applied,          \* per sid: the call whose write the collection applied last (0: none)
  now               \* Date.now()

vars == <<options, driver, ctor, col, connectAttempts, idx, times, ready, emitted,
          ops, docs, applied, now>>

\* --------------------------------------------------------- pure functions
\* obj.k, undefined when obj has no such key.
Field(obj, k) == IF k \in DOMAIN obj THEN obj[k] ELSE Undefined

\* set(), line 144: sess.cookie && (sess.cookie.maxAge || sess.cookie.maxage)
CookieMaxAge(sess) ==
  IF "cookie" \in DOMAIN sess
  THEN Or(Field(sess["cookie"], "maxAge"), Field(sess["cookie"], "maxage"))
  ELSE Undefined

\* An expiry that takes whatever the cookie gives for a number.
EffectiveMaxAgeCoercing(sess, ttl) ==
  IF Truthy(ttl) THEN ttl[2]
  ELSE IF CookieMaxAge(sess) # Undefined THEN CookieMaxAge(sess)[2]
  ELSE ONE_DAY

\* set(), lines 149-150: ttl || ('number' == typeof maxAge ? maxAge : ONE_DAY)
EffectiveMaxAge(sess, ttl) ==
  IF Truthy(ttl) THEN ttl[2]
  ELSE IF TypeofNumber(CookieMaxAge(sess)) THEN CookieMaxAge(sess)[2]
  ELSE ONE_DAY

\* set(), lines 143, 148-150: the clone of sess, stamped with sid and ttl.
Stamp(sess, sid, ttl, t) ==
  [k \in (DOMAIN sess) \cup {"sid", "ttl"} |->
     IF k = "sid" THEN sid
     ELSE IF k = "ttl" THEN EffectiveMaxAge(sess, ttl) + t
     ELSE sess[k]]

\* The field map { _id: 0, ttl: 0, sid: 0 } of line 131, applied to a document.
Projection(doc) == [k \in (DOMAIN doc) \ {"_id", "ttl", "sid"} |-> doc[k]]

\* get(), line 131, passes the field map as the second positional argument
\* of findOne and strips nothing itself.  What comes back is up to the driver
\* the store runs on, which is not part of the store: a driver that reads
\* that argument as the fields to return ("fields", the API before 3.0)
\* applies the map; a driver that reads it as the options of the query
\* ("options", the API from 3.0 on, with the projection under
\* options.projection) finds no option it knows and returns the document as
\* stored.  The constructor works with either (a database handle of any
\* driver, line 41; the client of lines 80-90).
Drivers == {"fields", "options"}

\* What findOne({ sid }, { _id: 0, ttl: 0, sid: 0 }) answers for a document
\* it found.
FindOneAnswer(doc, drv) == IF drv = "fields" THEN Projection(doc) ELSE doc

\* ------------------------------------------------------- the collection
\* Positions of the documents that match { sid: sid }.
Matching(d, sid) == {p \in 1..Len(d) : d[p]["sid"] = sid}
Min(S) == CHOOSE x \in S : \A y \in S : x <= y
\* findOne and a single-document update take the first match in natural order.
FirstMatch(d, sid) == Min(Matching(d, sid))
WithId(doc, id) == [k \in (DOMAIN doc) \cup {"_id"} |-> IF k = "_id" THEN id ELSE doc[k]]
HasDuplicates(d) == \E p, q \in 1..Len(d) : p # q /\ d[p]["sid"] = d[q]["sid"]

\* ------------------------------------------------------------ the calls
IdleOp == [kind |-> "none", sid |-> "none", sess |-> NoSess, ttl |-> Undefined,
           st |-> "idle", queued |-> FALSE, hb |-> {}, at |-> 0, arg |-> NoSess,
           res |-> Null, err |-> "none", calls |-> 0, caller |-> NoSess]
Finished(o) == o.st \in {"done", "failed"}

\* A call that gives up when the connection is not there yet.
AwaitColFailingEarly(o, c, t) ==
  IF c # "resolved" THEN [o EXCEPT !.st = "failed", !.err = "connect"]
  ELSE [o EXCEPT !.st = "issued", !.at = t, !.calls = o.calls + 1,
                 !.arg = IF o.kind = "set" THEN Stamp(o.sess, o.sid, o.ttl, t) ELSE NoSess]

\* A call that goes to the collection whatever became of the connection.
AwaitColIgnoringRejection(o, c, t) ==
  IF c = "pending" THEN [o EXCEPT !.st = "waiting", !.queued = TRUE]
  ELSE [o EXCEPT !.st = "issued", !.at = t, !.calls = o.calls + 1,
                 !.arg = IF o.kind = "set" THEN Stamp(o.sess, o.sid, o.ttl, t) ELSE NoSess]

\* A set that stamps sid and ttl on the object it was given, not on a clone.
AwaitColStampingCaller(o, c, t) ==
  IF c = "pending" THEN [o EXCEPT !.st = "waiting", !.queued = TRUE]
  ELSE IF c = "rejected" THEN [o EXCEPT !.st = "failed", !.err = "connect"]
  ELSE [o EXCEPT !.st = "issued", !.at = t, !.calls = o.calls + 1,
                 !.arg = IF o.kind = "set" THEN Stamp(o.sess, o.sid, o.ttl, t) ELSE NoSess,
                 !.caller = IF o.kind = "set" THEN Stamp(o.sess, o.sid, o.ttl, t) ELSE NoSess]

\* `yield this.col` (lines 128, 145, 162) and the code up to the call on the
\* collection, for a call whose generator has run up to that yield.  set
\* works on the clone of line 143 (arg); the object it was given (caller) is
\* not written to.
AwaitCol(o, c, t) ==
  IF c = "pending" THEN [o EXCEPT !.st = "waiting", !.queued = TRUE]
  ELSE IF c = "rejected" THEN [o EXCEPT !.st = "failed", !.err = "connect"]
  ELSE [o EXCEPT !.st = "issued", !.at = t, !.calls = o.calls + 1,
                 !.arg = IF o.kind = "set" THEN Stamp(o.sess, o.sid, o.ttl, t) ELSE NoSess]

\* ------------------------------------------------------------------ Init
\* A check that lets a url pass next to a database handle.
ConfigConflictExceptDbHandle(o) == o.url /\ o.hostEtc /\ ~o.dbHandle

\* constructor, lines 37-39
ConfigConflict(o) == o.url /\ o.hostEtc
\* constructor, line 41 (options.db is a database handle)
UsesDbHandle(o) == o.dbHandle

\* The store as the constructor leaves it.  With a database handle this.col
\* is resolved from the start and the reaction that calls _ensureIndexes runs
\* before the reaction of any call, so both ensureIndex calls are already out
\* when the first get / set / destroy reaches the collection.
Init ==
  /\ options \in OptionsSet
  /\ driver \in Drivers
  /\ ctor = IF ConfigConflict(options) THEN "threw" ELSE "ok"
  /\ col = IF ConfigConflict(options) THEN "unset"
           ELSE IF UsesDbHandle(options) THEN "resolved" ELSE "pending"
  /\ connectAttempts = IF ConfigConflict(options) \/ UsesDbHandle(options) THEN 0 ELSE 1
  /\ idx = [n \in IndexNames |->
              IF ~ConfigConflict(options) /\ UsesDbHandle(options) THEN "requested" ELSE "none"]
  /\ times = 2
  /\ ready = "pending"
  /\ emitted = <<>>
  /\ ops = [i \in OpIds |-> IdleOp]
  /\ docs = <<>>
  /\ applied = [sid \in Sids |-> 0]
  /\ now = 0

\* --------------------------------------------------------------- actions
\* The callback of MongoClient.connect (lines 80-90) and the reactions on
\* this.col it triggers: _ensureIndexes first (registered in the
\* constructor), then every call suspended at `yield this.col`.
ConnectReply(ok) ==
  /\ ctor = "ok" /\ col = "pending"
  /\ IF ok
     THEN /\ col' = "resolved"
          /\ idx' = [n \in IndexNames |-> "requested"]
          /\ UNCHANGED <<ready, emitted, applied>>
     ELSE /\ col' = "rejected"
          /\ ready' = "rejected"
          /\ emitted' = Append(emitted, "error")
          /\ UNCHANGED idx
  /\ ops' = [i \in OpIds |-> IF ops[i].st = "waiting" THEN AwaitCol(ops[i], col', now) ELSE ops[i]]
  /\ UNCHANGED <<options, driver, ctor, connectAttempts, times, docs, now, applied>>

\* done(err) resolving on the first confirmation instead of the second.
DoneAfterFirstIndex(err) ==
  IF err
  THEN /\ ready' = IF ready = "pending" THEN "rejected" ELSE ready
       /\ emitted' = IF ready = "pending" THEN Append(emitted, "error") ELSE emitted
       /\ UNCHANGED times
  ELSE /\ times' = times - 1
       /\ ready' = IF times - 1 < 2 /\ ready = "pending" THEN "resolved" ELSE ready
       /\ emitted' = IF times - 1 < 2 /\ ready = "pending"
                     THEN Append(emitted, "connect") ELSE emitted

\* done(err) of _ensureIndexes, lines 107-113, with the reactions of lines
\* 51-55 on its promise.
Done(err) ==
  IF err
  THEN /\ ready' = IF ready = "pending" THEN "rejected" ELSE ready
       /\ emitted' = IF ready = "pending" THEN Append(emitted, "error") ELSE emitted
       /\ UNCHANGED times
  ELSE /\ times' = times - 1
       /\ ready' = IF times - 1 < 1 /\ ready = "pending" THEN "resolved" ELSE ready
       /\ emitted' = IF times - 1 < 1 /\ ready = "pending"
                     THEN Append(emitted, "connect") ELSE emitted

\* The collection answers an ensureIndex (lines 115-116).  A unique index
\* cannot be built over duplicates; any build can fail for other reasons.
IndexReply(n, ok) ==
  /\ idx[n] = "requested"
  /\ ok /\ n = "sid" => ~HasDuplicates(docs)
  /\ idx' = [idx EXCEPT ![n] = IF ok THEN "ok" ELSE "failed"]
  /\ Done(~ok)
  /\ UNCHANGED <<options, driver, ctor, col, connectAttempts, ops, docs, now, applied>>

\* A call that starts a connection of its own while none is established.
CallConnectingAgain(i, kind, sid, sess, ttl) ==
  /\ ctor = "ok"
  /\ ops[i].st = "idle"
  /\ i > 1 => ops[i - 1].st # "idle"
  /\ ops' = [ops EXCEPT ![i] =
       AwaitCol([IdleOp EXCEPT !.kind = kind, !.sid = sid, !.sess = sess, !.ttl = ttl,
                               !.caller = sess,
                               !.hb = {j \in OpIds : Finished(ops[j])}],
                col, now)]
  /\ connectAttempts' = IF col = "pending" THEN connectAttempts + 1 ELSE connectAttempts
  /\ UNCHANGED <<options, driver, ctor, col, idx, times, ready, emitted, docs, now, applied>>

\* A call of get, set or destroy (run by co up to its first yield and, when
\* this.col is already settled, through the reaction on it).
Call(i, kind, sid, sess, ttl) ==
  /\ ctor = "ok"
  /\ ops[i].st = "idle"
  /\ i > 1 => ops[i - 1].st # "idle"
  /\ ops' = [ops EXCEPT ![i] =
       AwaitCol([IdleOp EXCEPT !.kind = kind, !.sid = sid, !.sess = sess, !.ttl = ttl,
                               !.caller = sess,
                               !.hb = {j \in OpIds : Finished(ops[j])}],
                col, now)]
  /\ UNCHANGED <<options, driver, ctor, col, connectAttempts, idx, times, ready, emitted,
                 docs, now, applied>>

Get(i, sid) == Call(i, "get", sid, NoSess, Undefined)
Set(i, sid, sess, ttl) == Call(i, "set", sid, sess, ttl)
Destroy(i, sid) == Call(i, "destroy", sid, NoSess, Undefined)

\* A findOne that answers a query matching nothing with an error.
CollFindOneFailingOnMiss(i) ==
  /\ ops[i].st = "issued" /\ ops[i].kind = "get"
  /\ ops' = [ops EXCEPT ![i] =
       IF Matching(docs, ops[i].sid) = {}
       THEN [@ EXCEPT !.st = "replied", !.err = "not found"]
       ELSE [@ EXCEPT !.st = "replied",
                      !.res = FindOneAnswer(docs[FirstMatch(docs, ops[i].sid)], driver)]]
  /\ UNCHANGED <<options, driver, ctor, col, connectAttempts, idx, times, ready, emitted,
                 docs, now, applied>>

\* A findOne that passes over documents whose ttl is not in the future.
CollFindOneCheckingExpiry(i) ==
  /\ ops[i].st = "issued" /\ ops[i].kind = "get"
  /\ ops' = [ops EXCEPT ![i].st = "replied",
                        ![i].res = IF \A p \in Matching(docs, ops[i].sid) : docs[p]["ttl"] <= now
                                   THEN Null
                                   ELSE FindOneAnswer(docs[FirstMatch(docs, ops[i].sid)], driver)]
  /\ UNCHANGED <<options, driver, ctor, col, connectAttempts, idx, times, ready, emitted,
                 docs, now, applied>>

\* The collection executes findOne({ sid }, projection), line 131.
CollFindOne(i) ==
  /\ ops[i].st = "issued" /\ ops[i].kind = "get"
  /\ ops' = [ops EXCEPT ![i].st = "replied",
                        ![i].res = IF Matching(docs, ops[i].sid) = {} THEN Null
                                   ELSE FindOneAnswer(docs[FirstMatch(docs, ops[i].sid)], driver)]
  /\ UNCHANGED <<options, driver, ctor, col, connectAttempts, idx, times, ready, emitted,
                 docs, now, applied>>

\* An update that merges the new fields into the matching document.
CollUpdateMerging(i) ==
  /\ ops[i].st = "issued" /\ ops[i].kind = "set"
  /\ IF Matching(docs, ops[i].sid) = {}
     THEN /\ ops' = [ops EXCEPT ![i].st = "upserting"]
          /\ UNCHANGED <<docs, applied>>
     ELSE /\ docs' = [docs EXCEPT ![FirstMatch(docs, ops[i].sid)] =
                        [k \in (DOMAIN @) \cup (DOMAIN ops[i].arg) |->
                           IF k \in DOMAIN ops[i].arg THEN ops[i].arg[k] ELSE @[k]]]
          /\ applied' = [applied EXCEPT ![ops[i].sid] = i]
          /\ ops' = [ops EXCEPT ![i].st = "replied"]
  /\ UNCHANGED <<options, driver, ctor, col, connectAttempts, idx, times, ready, emitted, now>>

\* The collection executes update({ sid }, sess, { upsert: true }), line 152:
\* it replaces the first matching document, or finds none and goes on to insert.
CollUpdate(i) ==
  /\ ops[i].st = "issued" /\ ops[i].kind = "set"
  /\ IF Matching(docs, ops[i].sid) = {}
     THEN /\ ops' = [ops EXCEPT ![i].st = "upserting"]
          /\ UNCHANGED <<docs, applied>>
     ELSE /\ docs' = [docs EXCEPT ![FirstMatch(docs, ops[i].sid)] =
                        WithId(ops[i].arg, docs[FirstMatch(docs, ops[i].sid)]["_id"])]
          /\ applied' = [applied EXCEPT ![ops[i].sid] = i]
          /\ ops' = [ops EXCEPT ![i].st = "replied"]
  /\ UNCHANGED <<options, driver, ctor, col, connectAttempts, idx, times, ready, emitted, now>>

\* An insert whose unique index does not look at the sid: it is refused as
\* soon as the collection holds any document.
CollInsertUniqueOverall(i) ==
  /\ ops[i].st = "upserting"
  /\ IF idx["sid"] = "ok" /\ docs # <<>>
     THEN /\ ops' = [ops EXCEPT ![i].st = "replied", ![i].err = "duplicate key"]
          /\ UNCHANGED <<docs, applied>>
     ELSE /\ docs' = Append(docs, WithId(ops[i].arg, i))
          /\ applied' = [applied EXCEPT ![ops[i].sid] = i]
          /\ ops' = [ops EXCEPT ![i].st = "replied"]
  /\ UNCHANGED <<options, driver, ctor, col, connectAttempts, idx, times, ready, emitted, now>>

\* The insert half of an upsert that matched nothing.  Only the unique index
\* on sid stops it when a document with that sid has appeared meanwhile.
CollInsert(i) ==
  /\ ops[i].st = "upserting"
  /\ IF idx["sid"] = "ok" /\ Matching(docs, ops[i].sid) # {}
     THEN /\ ops' = [ops EXCEPT ![i].st = "replied", ![i].err = "duplicate key"]
          /\ UNCHANGED <<docs, applied>>
     ELSE /\ docs' = Append(docs, WithId(ops[i].arg, i))
          /\ applied' = [applied EXCEPT ![ops[i].sid] = i]
          /\ ops' = [ops EXCEPT ![i].st = "replied"]
  /\ UNCHANGED <<options, driver, ctor, col, connectAttempts, idx, times, ready, emitted, now>>

\* A remove whose filter is inverted: it deletes the documents of the other sids.
CollRemoveOthers(i) ==
  /\ ops[i].st = "issued" /\ ops[i].kind = "destroy"
  /\ docs' = SelectSeq(docs, LAMBDA d : d["sid"] = ops[i].sid)
  /\ applied' = [applied EXCEPT ![ops[i].sid] = i]
  /\ ops' = [ops EXCEPT ![i].st = "replied"]
  /\ UNCHANGED <<options, driver, ctor, col, connectAttempts, idx, times, ready, emitted, now>>

\* The collection executes remove({ sid }), line 165.
CollRemove(i) ==
  /\ ops[i].st = "issued" /\ ops[i].kind = "destroy"
  /\ docs' = SelectSeq(docs, LAMBDA d : d["sid"] # ops[i].sid)
  /\ applied' = [applied EXCEPT ![ops[i].sid] = i]
  /\ ops' = [ops EXCEPT ![i].st = "replied"]
  /\ UNCHANGED <<options, driver, ctor, col, connectAttempts, idx, times, ready, emitted, now>>

\* The collection reports a failure of the findOne / update / remove instead
\* of executing it (lines 131, 152, 165: the callback's err).
CollFail(i) ==
  /\ ops[i].st \in {"issued", "upserting"}
  /\ ops' = [ops EXCEPT ![i].st = "replied", ![i].err = "storage"]
  /\ UNCHANGED <<options, driver, ctor, col, connectAttempts, idx, times, ready, emitted,
                 docs, applied, now>>

\* A callback that issues the call again when the collection reported a failure.
ReplyRetrying(i) ==
  /\ ops[i].st = "replied"
  /\ ops' = [ops EXCEPT ![i] =
       IF ops[i].err = "none" THEN [@ EXCEPT !.st = "done"]
       ELSE IF ops[i].calls < 2 THEN [@ EXCEPT !.st = "issued", !.err = "none", !.calls = @ + 1]
       ELSE [@ EXCEPT !.st = "failed"]]
  /\ UNCHANGED <<options, driver, ctor, col, connectAttempts, idx, times, ready, emitted,
                 docs, applied, now>>

\* The thunk's callback: the generator resumes and returns or throws
\* (lines 131, 152, 165).
Reply(i) ==
  /\ ops[i].st = "replied"
  /\ ops' = [ops EXCEPT ![i].st = IF ops[i].err = "none" THEN "done" ELSE "failed"]
  /\ UNCHANGED <<options, driver, ctor, col, connectAttempts, idx, times, ready, emitted,
                 docs, now, applied>>

\* The ttl index with expireAfterSeconds: 0 (line 115): once it exists the
\* collection purges the documents whose ttl is not in the future.
Sweep ==
  /\ idx["ttl"] = "ok"
  /\ \E p \in 1..Len(docs) : docs[p]["ttl"] <= now
  /\ docs' = SelectSeq(docs, LAMBDA d : d["ttl"] > now)
  /\ UNCHANGED <<options, driver, ctor, col, connectAttempts, idx, times, ready, emitted,
                 ops, now, applied>>

\* Date.now() advances.
Tick ==
  /\ now < MaxNow
  /\ now' = now + 1
  /\ UNCHANGED <<options, driver, ctor, col, connectAttempts, idx, times, ready, emitted,
                 ops, docs, applied>>

\* What the collection and the clock do.
Collection ==
  \/ \E i \in OpIds : CollFindOne(i)
  \/ \E i \in OpIds : CollUpdate(i)
  \/ \E i \in OpIds : CollInsert(i)
  \/ \E i \in OpIds : CollRemove(i)
  \/ \E i \in OpIds : CollFail(i)
  \/ \E i \in OpIds : Reply(i)
  \/ Sweep
  \/ Tick

\* A store from its construction on, with calls arriving while it initializes.
Next ==
  \/ \E ok \in BOOLEAN : ConnectReply(ok)
  \/ \E n \in IndexNames, ok \in BOOLEAN : IndexReply(n, ok)
  \/ \E i \in InitOpIds, sid \in Sids : Get(i, sid)
  \/ \E i \in InitOpIds, sid \in Sids, sess \in Sessions, ttl \in TtlArgs : Set(i, sid, sess, ttl)
  \/ \E i \in InitOpIds, sid \in Sids : Destroy(i, sid)
  \/ Collection

Spec == Init /\ [][Next]_vars

\* A store that has emitted 'connect' (a state Spec reaches), serving calls.
InitReady ==
  /\ options = OptParams
  /\ driver \in Drivers
  /\ ctor = "ok"
  /\ col = "resolved"
  /\ connectAttempts = 1
  /\ idx = [n \in IndexNames |-> "ok"]
  /\ times = 0
  /\ ready = "resolved"
  /\ emitted = <<"connect">>
  /\ ops = [i \in OpIds |-> IdleOp]
  /\ docs = <<>>
  /\ applied = [sid \in Sids |-> 0]
  /\ now = 0

NextReady ==
  \/ \E i \in OpIds, sid \in Sids : Get(i, sid)
  \/ \E i \in OpIds, sid \in Sids, sess \in Sessions, ttl \in TtlArgs : Set(i, sid, sess, ttl)
  \/ \E i \in OpIds, sid \in Sids : Destroy(i, sid)
  \/ Collection

\* The connection attempt is answered, and the collection executes and answers
\* every call issued to it.
Fairness ==
  /\ WF_vars(\E ok \in BOOLEAN : ConnectReply(ok))
  /\ \A i \in OpIds :
       /\ WF_vars(CollFindOne(i)) /\ WF_vars(CollUpdate(i)) /\ WF_vars(CollInsert(i))
       /\ WF_vars(CollRemove(i)) /\ WF_vars(Reply(i))

FairSpec == Spec /\ Fairness

SpecReady == InitReady /\ [][NextReady]_vars

\* The collection also answers every ensureIndex, and once the ttl index
\* exists its monitor keeps purging what has expired.
SweepFairness ==
  /\ \A n \in IndexNames : WF_vars(\E ok \in BOOLEAN : IndexReply(n, ok))
  /\ WF_vars(Sweep)

FairSweepSpec == Spec /\ Fairness /\ SweepFairness

\* One set() on a ready store, over the inputs that decide the expiry.
NextMaxAge ==
  \/ \E sid \in Sids, sess \in CookieSessions, ttl \in CookieTtlArgs : Set(1, sid, sess, ttl)
  \/ CollUpdate(1)
  \/ CollInsert(1)
  \/ CollFail(1)
  \/ Reply(1)
  \/ Tick

SpecMaxAge == InitReady /\ [][NextMaxAge]_vars

\* ================================================================ claims
\* Fields of a call record (kept for the claims, never read by the store):
\*   queued  the call found this.col pending and waited for it
\*   hb      the calls that had returned or thrown when this call was made
\*   at      the value of Date.now() when the call was issued (the one set() stamps)
\*   calls   how many times the call was issued to the collection
\*   sess    the session as it was when set was called
\*   caller  the object the caller passed to set, as it is now

\* The call made it to the collection: its findOne / update / remove was issued.
Issued(o) == \/ o.st \in {"issued", "upserting", "replied", "done"}
             \/ o.st = "failed" /\ o.err # "connect"
Write(o) == o.kind \in {"set", "destroy"}
BothIndexesConfirmed == \A n \in IndexNames : idx[n] = "ok"
\* A session or record without the keys _id, ttl and sid, which are the
\* store's and the collection's.
SansBookkeeping(sess) == [k \in (DOMAIN sess) \ {"_id", "ttl", "sid"} |-> sess[k]]

\* C1: no get, set or destroy issues its call to the collection before the
\* connection is established and both indexes are confirmed.
C1_NoCallBeforeIndexesConfirmed ==
  \A i \in OpIds : Issued(ops[i]) => col = "resolved" /\ BothIndexesConfirmed

\* C2: a get of sid called after set(sid, sess) returned, with every other
\* set and destroy of that sid over before the set was called or called after
\* the get returned, and returning before the record's expiry has passed,
\* returns sess without _id, ttl and sid.
C2_SetThenGet(s, g) ==
  /\ ops[s].kind = "set" /\ ops[s].st = "done"
  /\ ops[g].kind = "get" /\ ops[g].st = "done"
  /\ ops[g].sid = ops[s].sid
  /\ s \in ops[g].hb
  /\ now < ops[s].arg["ttl"]
  /\ \A o \in OpIds \ {s} :
       Write(ops[o]) /\ ops[o].sid = ops[s].sid => o \in ops[s].hb \/ g \in ops[o].hb

C2_GetReturnsWhatWasSet ==
  \A s, g \in OpIds : C2_SetThenGet(s, g) => ops[g].res = SansBookkeeping(ops[s].sess)

\* C3: the record handed to the collection carries write-time plus the
\* effective max-age: the ttl argument when one is supplied, else the
\* cookie's maxAge (or maxage) when that is a number, else ONE_DAY.
C3_ClaimedMaxAge(sess, ttl) ==
  IF ttl # Undefined THEN ttl[2]
  ELSE IF "cookie" \notin DOMAIN sess THEN ONE_DAY
  ELSE IF Field(sess["cookie"], "maxAge") # Undefined
       THEN (IF TypeofNumber(sess["cookie"]["maxAge"])
             THEN sess["cookie"]["maxAge"][2] ELSE ONE_DAY)
       ELSE (IF TypeofNumber(Field(sess["cookie"], "maxage"))
             THEN sess["cookie"]["maxage"][2] ELSE ONE_DAY)

C3_ExpiryIsWriteTimePlusMaxAge ==
  \A i \in OpIds :
    ops[i].kind = "set" /\ Issued(ops[i]) =>
      ops[i].arg["ttl"] = ops[i].at + C3_ClaimedMaxAge(ops[i].sess, ops[i].ttl)

\* C4: the collection never holds two records with the same sid.
C4_OneRecordPerSid == ~HasDuplicates(docs)

\* C5: once an index could not be established the store is as after a
\* failed connection: 'error' emitted, 'connect' not, never ready, and a call
\* made from then on is rejected, not performed.
C5_IndexFailureRejectsCalls ==
  [][(\E n \in IndexNames : idx[n] = "failed") =>
       /\ emitted = <<"error">>
       /\ ready = "rejected"
       /\ \A i \in OpIds : ops[i].st = "idle" => ops'[i].st \in {"idle", "failed"}]_vars

\* C6: 'connect' is emitted only after both indexes are confirmed; when the
\* connection or an index fails 'error' is emitted instead, 'connect' never,
\* and no connection or index attempt follows.
C6_Failed == col = "rejected" \/ \E n \in IndexNames : idx[n] = "failed"
C6_Emits ==
  /\ (\E p \in 1..Len(emitted) : emitted[p] = "connect") =>
       col = "resolved" /\ BothIndexesConfirmed
  /\ C6_Failed => emitted = <<"error">>
C6_ConnectOnlyAfterBothIndexes ==
  [][/\ C6_Emits'
     /\ C6_Failed => /\ connectAttempts' = connectAttempts
                     /\ \A n \in IndexNames : idx[n] # "requested" => idx'[n] = idx[n]]_vars

\* 'connect' was emitted while a call issued before the indexes is at the collection.
C6_Witness ==
  /\ emitted = <<"connect">> /\ BothIndexesConfirmed
  /\ \E i \in OpIds : Issued(ops[i])

\* C7: the connection is attempted at most once whatever calls are pending or
\* arrive, no call starts another attempt, and all the calls see one outcome.
C7_OneOutcome ==
  \A i \in OpIds :
    /\ ops[i].st = "waiting" => col = "pending"
    /\ Issued(ops[i]) => col = "resolved"
    /\ ops[i].err = "connect" => col = "rejected"
C7_ConnectsAtMostOnce ==
  [][connectAttempts' = connectAttempts /\ connectAttempts' <= 1 /\ C7_OneOutcome']_vars

\* Two calls made while the connection was pending were both issued when it came.
C7_Witness ==
  /\ connectAttempts = 1 /\ col = "resolved"
  /\ \E i, j \in OpIds : i # j /\ ops[i].st = "issued" /\ ops[j].st = "issued"
                         /\ idx["sid"] = "requested" /\ idx["ttl"] = "requested"
                         /\ ops[i].queued /\ ops[j].queued

\* C8: a call made while the connection is pending does not fail but waits,
\* and, the connection and the collection answering, it is issued and
\* completes unless the connection fails.
C8_PendingCallsComplete ==
  /\ [](col = "pending" => \A i \in OpIds : ops[i].st \in {"idle", "waiting"})
  /\ \A i \in OpIds :
       (ops[i].st = "waiting") ~>
          (col = "rejected" \/ (Finished(ops[i]) /\ ops[i].err # "connect"))

\* A call that waited for the connection has returned.
C8_Witness ==
  \E i \in OpIds : ops[i].queued /\ ops[i].st = "done" /\ ops[i].kind = "set"

\* C9: when the connection fails 'error' is emitted, every call pending then
\* or made later is rejected with the connection error without touching the
\* collection, and no other connection attempt is made.
C9_ConnectionFailureRejectsAll ==
  col = "rejected" =>
    /\ emitted = <<"error">>
    /\ connectAttempts = 1
    /\ \A i \in OpIds : ops[i].st \in {"idle", "failed"} /\ ~Issued(ops[i])
    /\ \A n \in IndexNames : idx[n] = "none"
    /\ docs = <<>>

\* The connection failed with one call pending, and another call came later.
C9_Witness ==
  /\ col = "rejected"
  /\ \E i, j \in OpIds : /\ ops[i].st = "failed" /\ ops[i].err = "connect" /\ ops[i].queued
                         /\ ops[j].st = "failed" /\ ops[j].err = "connect" /\ ~ops[j].queued

\* C10: after set(sid, first) and then set(sid, second), one after the other,
\* get(sid) returns the second session alone, no key of the first surviving,
\* and the collection holds one record for sid.  The sessions are compared
\* by their own keys; what get does with _id, ttl and sid is C2's matter.
C10_SetSetGet(s1, s2, g) ==
  /\ ops[s1].kind = "set" /\ ops[s1].st = "done"
  /\ ops[s2].kind = "set" /\ ops[s2].st = "done"
  /\ ops[g].kind = "get" /\ ops[g].st = "done"
  /\ ops[s1].sid = ops[s2].sid /\ ops[g].sid = ops[s2].sid
  /\ ops[s1].sess # ops[s2].sess
  /\ s1 \in ops[s2].hb /\ s2 \in ops[g].hb
  /\ now < ops[s2].arg["ttl"]
  /\ \A o \in OpIds \ {s1, s2} :
       Write(ops[o]) /\ ops[o].sid = ops[s2].sid => o \in ops[s1].hb

C10_SecondSetReplaces ==
  \A s1, s2, g \in OpIds :
    C10_SetSetGet(s1, s2, g) =>
      /\ SansBookkeeping(ops[g].res) = SansBookkeeping(ops[s2].sess)
      /\ \A k \in (DOMAIN ops[s1].sess) \ (DOMAIN ops[s2].sess) :
           k \notin DOMAIN SansBookkeeping(ops[g].res)
      /\ \A k \in DOMAIN ops[g].res : k \in DOMAIN ops[s2].arg \cup {"_id"}
      /\ Cardinality(Matching(docs, ops[s2].sid)) = 1

\* The first session had a key the second has not, and the get came after both.
C10_Witness ==
  \E s1, s2, g \in OpIds :
    /\ C10_SetSetGet(s1, s2, g)
    /\ ops[s1].sess = SessA /\ ops[s2].sess = SessB
    /\ SansBookkeeping(ops[g].res) = [b |-> 2, cookie |-> [maxAge |-> Num(1)]]
    /\ "a" \notin DOMAIN ops[g].res

\* C11: with set calls of one sid running concurrently, what a get observes is
\* absent or one of the sessions written, whole, never a mixture of two; and
\* once every set of the sid has completed the record is the session of the
\* write the collection applied last.  Sessions are compared by their own
\* keys, without _id, ttl and sid.
C11_Written(sid) ==
  {SansBookkeeping(ops[s].sess) : s \in {o \in OpIds : ops[o].kind = "set" /\ ops[o].sid = sid}}
C11_NoMixture ==
  /\ \A g \in OpIds : ops[g].kind = "get" =>
       ops[g].res = Null \/ SansBookkeeping(ops[g].res) \in C11_Written(ops[g].sid)
  /\ \A p \in 1..Len(docs) : SansBookkeeping(docs[p]) \in C11_Written(docs[p]["sid"])
C11_LastWriteWins ==
  \A sid \in Sids :
    /\ \A s \in OpIds : ops[s].kind = "set" /\ ops[s].sid = sid => Finished(ops[s])
    /\ Matching(docs, sid) # {}
    => /\ applied[sid] # 0 /\ ops[applied[sid]].kind = "set"
       /\ SansBookkeeping(docs[FirstMatch(docs, sid)]) = SansBookkeeping(ops[applied[sid]].sess)
C11_ConcurrentSetsAtomic == C11_NoMixture /\ C11_LastWriteWins

\* C12: a get of sid called after destroy(sid) returned, with every set of
\* that sid over before the destroy was called or called after the get
\* returned, returns absent; and a remove that matches no document leaves the
\* collection as it was and the destroy does not fail for it.
C12_DestroyThenGet(d, g) ==
  /\ ops[d].kind = "destroy" /\ ops[d].st = "done"
  /\ ops[g].kind = "get" /\ ops[g].st = "done"
  /\ ops[g].sid = ops[d].sid
  /\ d \in ops[g].hb
  /\ \A o \in OpIds :
       ops[o].kind = "set" /\ ops[o].sid = ops[d].sid => o \in ops[d].hb \/ g \in ops[o].hb

C12_RemoveOfAbsent(i) ==
  /\ ops[i].kind = "destroy" /\ ops[i].st = "issued" /\ ops'[i].st = "replied"
  /\ Matching(docs, ops[i].sid) = {}
  => /\ docs' = docs
     /\ ops'[i].err \in {"none", "storage"}

C12_DestroyedIsAbsent ==
  /\ [](\A d, g \in OpIds : C12_DestroyThenGet(d, g) => ops[g].res = Null)
  /\ [](\A d \in OpIds : ops[d].kind = "destroy" /\ ops[d].st = "failed"
                            => ops[d].err = "storage")
  /\ [][\A i \in OpIds : C12_RemoveOfAbsent(i)]_vars

\* A get that found nothing after a destroy that followed a successful set of
\* the same sid.
C12_Witness ==
  \E s, d, g \in OpIds :
    /\ C12_DestroyThenGet(d, g)
    /\ ops[s].kind = "set" /\ ops[s].st = "done" /\ ops[s].sid = ops[d].sid
    /\ s \in ops[d].hb
    /\ ops[g].res = Null

\* C13: a get of a sid that no set was ever called for, on an initialized
\* store, returns absent (null) and throws only when the collection itself
\* reported a failure of the findOne: finding nothing is not an error.
C13_NeverWritten(sid) == \A o \in OpIds : ~(ops[o].kind = "set" /\ ops[o].sid = sid)

C13_AbsentIsNotAnError ==
  \A g \in OpIds :
    ops[g].kind = "get" /\ Finished(ops[g]) /\ C13_NeverWritten(ops[g].sid)
    => \/ ops[g].st = "done" /\ ops[g].res = Null /\ ops[g].err = "none"
       \/ ops[g].st = "failed" /\ ops[g].err = "storage"

\* A get of a never-written sid that returned absent while the collection
\* holds a record of the other sid.
C13_Witness ==
  \E g \in OpIds :
    /\ ops[g].kind = "get" /\ ops[g].st = "done" /\ C13_NeverWritten(ops[g].sid)
    /\ ops[g].res = Null
    /\ docs # <<>>

\* C14: a store constructed with url together with host, port, db or ssl has
\* thrown from its constructor, and for it no connection is ever attempted,
\* this.col is never set, no index is ever requested, no event is emitted and
\* no call is ever served.
C14_ConflictingOptionsThrow ==
  options.url /\ options.hostEtc
  => /\ ctor = "threw"
     /\ connectAttempts = 0
     /\ col = "unset"
     /\ \A n \in IndexNames : idx[n] = "none"
     /\ ready = "pending" /\ emitted = <<>>
     /\ \A i \in OpIds : ops[i] = IdleOp
     /\ docs = <<>>

\* The constructor threw for a url given together with a database handle.
C14_Witness == options = OptConflictDb /\ ctor = "threw" /\ connectAttempts = 0

\* C15: a record whose expiry has passed does not stay: the collection
\* purges it (or a later set of the sid replaces it by an unexpired one)
\* without anyone calling destroy, and a get of the sid finds nothing from
\* then on.
C15_Expired(sid) == \E p \in Matching(docs, sid) : docs[p]["ttl"] <= now

C15_ExpiredRecordsGoAway == \A sid \in Sids : C15_Expired(sid) ~> ~C15_Expired(sid)

\* C16: the object passed to set is at every moment what it was when set was
\* called: same keys, same values, no sid or ttl gained or changed.  Only the
\* clone handed to the collection carries the stamps.
C16_CallerPayloadUntouched ==
  \A i \in OpIds : ops[i].kind = "set" => ops[i].caller = ops[i].sess

\* A set that waited for the connection and succeeded: the record written
\* has the sid of the call and a ttl, the caller's object still has its own
\* sid key and no ttl.
C16_Witness ==
  \E i \in OpIds :
    /\ ops[i].kind = "set" /\ ops[i].st = "done" /\ ops[i].queued
    /\ ops[i].sess = SessB
    /\ ops[i].arg["sid"] = ops[i].sid /\ "ttl" \in DOMAIN ops[i].arg
    /\ ops[i].caller["sid"] = "own" /\ "ttl" \notin DOMAIN ops[i].caller

\* C17: calls of different sids do not touch each other.  A set that the
\* collection did not report a failure for is refused (with "duplicate key")
\* only when another set of the same sid exists; a step
\* of the calls of other sids leaves the records of a sid as they are; and a
\* get after a successful set returns the session that was set (compared by
\* its own keys, without _id, ttl and sid), whatever calls of other sids run
\* alongside.
C17_RecordsOf(d, sid) == SelectSeq(d, LAMBDA x : x["sid"] = sid)

C17_OthersStep(sid) ==
  /\ ops' # ops
  /\ \A i \in OpIds : ops'[i] # ops[i] => ops'[i].sid # sid

C17_Concurrent(a, b) ==
  /\ ops[a].st # "idle" /\ ops[b].st # "idle"
  /\ a \notin ops[b].hb /\ b \notin ops[a].hb

C17_Retrieved(s, g) ==
  /\ ops[s].kind = "set" /\ ops[s].st = "done"
  /\ ops[g].kind = "get" /\ ops[g].st = "done" /\ ops[g].sid = ops[s].sid
  /\ s \in ops[g].hb
  /\ now < ops[s].arg["ttl"]
  /\ \A o \in OpIds \ {s, g} : ops[o].sid # ops[s].sid

C17_DistinctSidsIndependent ==
  /\ [](\A s \in OpIds :
          ops[s].kind = "set" /\ ops[s].err \notin {"none", "storage"}
          => \E o \in OpIds \ {s} : ops[o].kind = "set" /\ ops[o].sid = ops[s].sid)
  /\ [](\A s, g \in OpIds :
          C17_Retrieved(s, g) =>
            SansBookkeeping(ops[g].res) = SansBookkeeping(ops[s].sess))
  /\ [][\A sid \in Sids :
          C17_OthersStep(sid) => C17_RecordsOf(docs', sid) = C17_RecordsOf(docs, sid)]_vars

\* Two sets of different sids that ran concurrently and both succeeded, both
\* records in the collection, and a get that returned the payload of one.
C17_Witness ==
  \E s, t, g \in OpIds :
    /\ C17_Retrieved(s, g)
    /\ ops[t].kind = "set" /\ ops[t].st = "done" /\ ops[t].sid # ops[s].sid
    /\ C17_Concurrent(s, t)
    /\ SansBookkeeping(ops[g].res) = SansBookkeeping(ops[s].sess)
    /\ Len(docs) = 2

\* C18: on an initialized store, a call whose findOne, update or remove the
\* collection answered with an error throws that error to its caller; the
\* call on the collection was issued once and is not issued again; and the
\* store's connection and readiness are as before, so later calls are served.
C18_Surfaces(i) ==
  ops[i].st = "replied" /\ ops[i].err = "storage" /\ ops'[i] # ops[i]
  => ops'[i].st = "failed" /\ ops'[i].err = "storage" /\ ops'[i].calls = 1

C18_BackendFailureSurfacesOnce ==
  /\ [](\A i \in OpIds :
          /\ ops[i].calls = IF Issued(ops[i]) THEN 1 ELSE 0
          /\ ops[i].err = "storage" => ops[i].st \in {"replied", "failed"})
  /\ [](col = "resolved" /\ ready = "resolved")
  /\ [][\A i \in OpIds : C18_Surfaces(i)]_vars

\* A set that failed because the collection reported an error, and a set of
\* the same sid called afterwards that succeeded and wrote its record.
C18_Witness ==
  \E f, l \in OpIds :
    /\ ops[f].kind = "set" /\ ops[f].st = "failed" /\ ops[f].err = "storage"
    /\ ops[f].calls = 1
    /\ ops[l].kind = "set" /\ ops[l].st = "done" /\ ops[l].sid = ops[f].sid
    /\ f \in ops[l].hb
    /\ Matching(docs, ops[l].sid) # {}

\* C19: a set without ttl argument whose cookie has maxAge or maxage, none
\* of them a number, hands the collection a record that expires ONE_DAY
\* after the write, as for a session without any max-age, and throws only
\* when the collection reports a failure.
C19_NonNumericMaxAge(sess) ==
  /\ "cookie" \in DOMAIN sess
  /\ \E k \in {"maxAge", "maxage"} : k \in DOMAIN sess["cookie"]
  /\ \A k \in {"maxAge", "maxage"} :
       k \in DOMAIN sess["cookie"] => ~TypeofNumber(sess["cookie"][k])

C19_NonNumericMaxAgeIsOneDay ==
  \A i \in OpIds :
    /\ ops[i].kind = "set" /\ Issued(ops[i])
    /\ ops[i].ttl = Undefined /\ C19_NonNumericMaxAge(ops[i].sess)
    => /\ ops[i].arg["ttl"] = ops[i].at + ONE_DAY
       /\ ops[i].arg["ttl"] = Stamp(SessA, ops[i].sid, Undefined, ops[i].at)["ttl"]
       /\ ops[i].err \in {"none", "storage"}

\* A set whose cookie has the string "5000" for maxage, written at time 1
\* with expiry one day later.
C19_Witness ==
  \E i \in OpIds :
    /\ ops[i].kind = "set" /\ ops[i].st = "done" /\ ops[i].ttl = Undefined
    /\ ops[i].sess = [a |-> 1, cookie |-> [maxage |-> Str(5000)]]
    /\ ops[i].at = 1 /\ ops[i].arg["ttl"] = ONE_DAY + 1
    /\ Len(docs) = 1 /\ docs[1]["ttl"] = ONE_DAY + 1

\* C20: a get whose findOne is executed while a record of the sid is in the
\* collection returns the session of that record (compared by its own keys,
\* without _id, ttl and sid) whether or not its ttl has passed; and the records of a sid leave the collection only by
\* the remove of a destroy of that sid or by the purge of expired documents.
C20_FindOneStep(g) ==
  /\ ops[g].kind = "get" /\ ops[g].st = "issued"
  /\ ops'[g].st = "replied" /\ ops'[g].err = "none"

C20_RemoveStep(sid) ==
  \E d \in OpIds : /\ ops[d].kind = "destroy" /\ ops[d].sid = sid
                    /\ ops[d].st = "issued" /\ ops'[d].st = "replied"

C20_PurgeStep(sid) ==
  /\ ops' = ops
  /\ idx["ttl"] = "ok"
  /\ \A p \in Matching(docs, sid) : docs[p]["ttl"] <= now

C20_GetIgnoresExpiry ==
  /\ [][\A g \in OpIds :
          C20_FindOneStep(g) /\ Matching(docs, ops[g].sid) # {}
          => /\ ops'[g].res # Null
             /\ SansBookkeeping(ops'[g].res) =
                  SansBookkeeping(docs[FirstMatch(docs, ops[g].sid)])]_vars
  /\ [][\A sid \in Sids :
          Matching(docs, sid) # {} /\ Matching(docs', sid) = {}
          => C20_RemoveStep(sid) \/ C20_PurgeStep(sid)]_vars

\* A get called when the expiry of the record had passed, that returned the
\* payload of the set that wrote it.
C20_Witness ==
  \E s, g \in OpIds :
    /\ ops[s].kind = "set" /\ ops[s].st = "done"
    /\ ops[g].kind = "get" /\ ops[g].st = "done" /\ ops[g].sid = ops[s].sid
    /\ s \in ops[g].hb
    /\ ops[g].at >= ops[s].arg["ttl"]
    /\ ops[g].res # Null
    /\ SansBookkeeping(ops[g].res) = SansBookkeeping(ops[s].sess)
====
